---- MODULE Spec2Model ----
(***************************************************************************)
(* Model of src/tts.py: the chat-style TTS panel.                          *)
(*                                                                         *)
(* ChatTTSApp runs on the interactive (Tk) thread. Its handlers are the    *)
(* actions of the model; a handler that blocks (join with timeout, a modal *)
(* message box) has a position of its own. Every SpeechWorker is a         *)
(* background thread whose run() is cut at the points where it can observe *)
(* or publish shared state (the stop flag, exc, liveness).                 *)
(*                                                                         *)
(* A text is a sequence of one-character strings, so strip(), split(),     *)
(* startswith(), int() and the f-string formatting are computed and not    *)
(* assumed.                                                                *)
(***************************************************************************)
EXTENDS Integers, Sequences, FiniteSets, TLC

(* ------------------------------ bounds -------------------------------- *)
\* number of messages that may be submitted (ids 1..MaxMsgs)
MaxMsgs == 3
\* number of messages that are submitted where the history is not the subject:
\* every specification but the one of the deletions stops submitting here
MaxSessionMsgs == 2
\* number of SpeechWorker objects that may be constructed
MaxWorkers == 3
\* the clock (seconds since the epoch) runs from 0 to MaxTime
MaxTime == 1
\* a slider stops at the multiples of 1/SliderUnit
SliderUnit == 2
\* number of sessions that the specification of the whole panel starts
MaxPanelWorkers == 2

(* ----------------------------- constants ------------------------------ *)
\* ttk.Scale(top, from_=80, to=260): the rate slider
RateFrom == 80
RateTo == 260
\* ttk.Scale(top, from_=0, to=100): the volume slider
VolumeFrom == 0
VolumeTo == 100
\* default_rate when the probe engine reports none
DefaultRate == 180

(* ------------------------------ strings ------------------------------- *)
SP == " "
NL == "\n"

\* str.isspace() for the characters of the model's alphabet
IsSpace(c) == c \in {SP, NL, "\t"}

Digits == <<"0", "1", "2", "3", "4", "5", "6", "7", "8", "9">>

IsDigit(c) == \E i \in 1..10 : Digits[i] = c

DigitVal(c) == (CHOOSE i \in 1..10 : Digits[i] = c) - 1

\* str(n) for n >= 0
RECURSIVE IntToStr(_)
IntToStr(n) == IF n < 10 THEN <<Digits[n + 1]>>
               ELSE IntToStr(n \div 10) \o <<Digits[(n % 10) + 1]>>

\* zero-padding to width w: the f-string formats 03d and 02d
RECURSIVE ZeroPad(_, _)
ZeroPad(s, w) == IF Len(s) >= w THEN s ELSE ZeroPad(<<"0">> \o s, w)

\* f"{id:03d}"
FormatId(id) == ZeroPad(IntToStr(id), 3)

\* strftime('%H:%M:%S') of a timestamp (local time taken as UTC)
FormatTime(ts) ==
    ZeroPad(IntToStr((ts \div 3600) % 24), 2) \o <<":">> \o
    ZeroPad(IntToStr((ts \div 60) % 60), 2) \o <<":">> \o
    ZeroPad(IntToStr(ts % 60), 2)

\* strftime('%Y-%m-%d %H:%M:%S'); the model's clock stays within 1970-01-01
FormatDateTime(ts) ==
    <<"1", "9", "7", "0", "-", "0", "1", "-", "0", "1", SP>> \o FormatTime(ts)

\* str.lstrip() / str.rstrip() / str.strip()
RECURSIVE LStrip(_)
LStrip(s) == IF s # <<>> /\ IsSpace(Head(s)) THEN LStrip(Tail(s)) ELSE s

RECURSIVE RStrip(_)
RStrip(s) == IF s # <<>> /\ IsSpace(s[Len(s)])
             THEN RStrip(SubSeq(s, 1, Len(s) - 1)) ELSE s

Strip(s) == RStrip(LStrip(s))

\* position of the first occurrence of character c in s, 0 when absent
FirstIndex(s, c) ==
    IF \E i \in 1..Len(s) : s[i] = c
    THEN CHOOSE i \in 1..Len(s) : s[i] = c /\ \A j \in 1..(i - 1) : s[j] # c
    ELSE 0

Contains(s, c) == FirstIndex(s, c) # 0

\* s.split(c, 1)[0] and s.split(c, 1)[1], for s containing c
SplitHead(s, c) == SubSeq(s, 1, FirstIndex(s, c) - 1)

SplitRest(s, c) == SubSeq(s, FirstIndex(s, c) + 1, Len(s))

\* s.split('\n'): the lines of s (one more than the number of newlines)
RECURSIVE SplitLines(_)
SplitLines(s) ==
    IF Contains(s, NL)
    THEN <<SplitHead(s, NL)>> \o SplitLines(SplitRest(s, NL))
    ELSE <<s>>

\* s.split(): the whitespace-separated words of s
RECURSIVE Words(_)
Words(s) ==
    LET t == LStrip(s)
        n == IF \E i \in 1..Len(t) : IsSpace(t[i])
             THEN (CHOOSE i \in 1..Len(t) :
                      IsSpace(t[i]) /\ \A j \in 1..(i - 1) : ~IsSpace(t[j])) - 1
             ELSE Len(t)
    IN  IF t = <<>> THEN <<>>
        ELSE <<SubSeq(t, 1, n)>> \o Words(SubSeq(t, n + 1, Len(t)))

\* the value of a string of decimal digits
RECURSIVE DigitsVal(_)
DigitsVal(s) == IF s = <<>> THEN 0
                ELSE 10 * DigitsVal(SubSeq(s, 1, Len(s) - 1)) + DigitVal(s[Len(s)])

\* what is left of s for int() after the blanks around it and one sign
Unsigned(s) ==
    LET t == Strip(s)
    IN  IF t # <<>> /\ Head(t) \in {"+", "-"} THEN Tail(t) ELSE t

\* int(s) returns: s is decimal digits with an optional sign, blanks around
IntOk(s) ==
    Unsigned(s) # <<>> /\ \A i \in 1..Len(Unsigned(s)) : IsDigit(Unsigned(s)[i])

\* int(s); "ValueError" when int(s) raises
ParseInt(s) ==
    IF ~IntOk(s) THEN "ValueError"
    ELSE IF Head(Strip(s)) = "-" THEN 0 - DigitsVal(Unsigned(s))
    ELSE DigitsVal(Unsigned(s))

(* ------------------------------ numbers ------------------------------- *)
\* A slider value is held as its count of steps of 1/SliderUnit, a float that
\* is a quotient as the pair of its numerator and its positive denominator.
Ratio(n, d) == [num |-> n, den |-> d]

RatLess(a, b) == a.num * b.den < b.num * a.den

RatEq(a, b) == a.num * b.den = b.num * a.den

\* min(a, b) and max(a, b) of Python: the first argument unless the second is
\* strictly smaller (min) or strictly larger (max)
PyMin(a, b) == IF RatLess(b, a) THEN b ELSE a

PyMax(a, b) == IF RatLess(a, b) THEN b ELSE a

\* default_volume when the probe engine reports none: 1.0
DefaultVolume == Ratio(1, 1)

\* int(self.sld_rate.get()): the float is cut to its integer part
RateArg(pos) == pos \div SliderUnit

\* a _speak_text that takes the volume slider's value for the volume
VolumeArgPercent(pos) ==
    PyMax(Ratio(0, 1), PyMin(Ratio(1, 1), Ratio(pos, SliderUnit)))

\* max(0.0, min(1.0, float(self.sld_volume.get()) / 100.0))
VolumeArg(pos) ==
    PyMax(Ratio(0, 1), PyMin(Ratio(1, 1), Ratio(pos, 100 * SliderUnit)))

(* ------------------------------- inputs ------------------------------- *)
\* where the user may leave the rate slider: its two ends, the default, and a
\* step inside each end
RateStops ==
    { RateFrom * SliderUnit, RateFrom * SliderUnit + 1, DefaultRate * SliderUnit,
      RateTo * SliderUnit - 1, RateTo * SliderUnit }

\* where the user may leave the volume slider
VolumeStops ==
    { VolumeFrom * SliderUnit, VolumeFrom * SliderUnit + 1,
      VolumeTo * SliderUnit - 1, VolumeTo * SliderUnit }

\* what the user may have typed into the input box when a submit is requested:
\* empty, whitespace only, a padded word, brackets, and two lines (Shift+Enter)
\* of which the second looks like the head of a transcript line
InputTexts ==
    { <<>>,
      <<SP, NL>>,
      <<SP, "a", SP>>,
      <<"[", "1", "]">>,
      <<"b", NL, "[", "1", "]", SP, "c">> }

(* -------------------------------- state ------------------------------- *)
VARIABLES
    messages,        \* self.messages: the history, a sequence of Message
    next_id,         \* self.next_id
    auto_speak,      \* self.auto_speak_var
    current_worker,  \* self.current_worker: 0 is None, else an index of workers
    workers,         \* every SpeechWorker constructed so far, in order
    status,          \* the text of lbl_status
    txt_log,         \* the transcript widget, as the sequence of its lines
    log_open,        \* the last of these lines has no newline at its end
    timers,          \* pending after(120, _poll_worker_done) callbacks
    ui,              \* position of the interactive thread
    dialogs,         \* open showerror boxes: the w of each suspended poll
    now,             \* the last reading of time.time()
    file,            \* content of the exported file
    sld_rate,        \* value of the rate slider, in steps of 1/SliderUnit
    sld_volume,      \* value of the volume slider, in steps of 1/SliderUnit
    voices,          \* self.voices: the voices the probe engine reported
    cmb_voice,       \* the label the voice combobox shows, "" for none
    lastOp           \* the handler or thread step that ran last

vars == <<messages, next_id, auto_speak, current_worker, workers, status,
          txt_log, log_open, timers, ui, dialogs, now, file, sld_rate,
          sld_volume, voices, cmb_voice, lastOp>>

\* the two sliders, the voice combobox and the voices it lists
controls == <<sld_rate, sld_volume, voices, cmb_voice>>

\* The three status texts, '待命', '朗讀中…' and '已停止'
StatusIdle == "idle"
StatusSpeaking == "speaking"
StatusStopped == "stopped"

\* positions of the interactive thread
UiReady == [pos |-> "ready", cont |-> "none", text |-> <<>>]
UiDestroyed == [pos |-> "destroyed", cont |-> "none", text |-> <<>>]
\* mainloop() has returned and the interpreter has ended
UiExited == [pos |-> "exited", cont |-> "none", text |-> <<>>]
UiJoin(cont, text) == [pos |-> "join", cont |-> cont, text |-> text]
\* a handler waits for the answer to the box it has opened
UiAsk(cont) == [pos |-> "ask", cont |-> cont, text |-> <<>>]

\* the last step: the handler (or "thread"), its numeric argument, its text input
Op(name, n, text) == [op |-> name, n |-> n, text |-> text]

\* @dataclass Message
Message(id, ts, text) == [id |-> id, ts |-> ts, text |-> text]

\* SpeechWorker.__init__: a thread not yet started. pc is the thread's position
\* in run() and outcome the way run() ended. predFlag records whether, at the
\* moment of construction, there was a current session with its stop flag set.
\* shown counts the error boxes opened for the session. applied holds the
\* engine properties that run() has set, raised those whose setProperty
\* raised, and stopped tells whether run() has called engine.stop().
SpeechWorker(text, voice_id, rate, volume, predFlag) ==
    [text |-> text, voice_id |-> voice_id, rate |-> rate, volume |-> volume,
     stop_flag |-> FALSE, exc |-> FALSE,
     pc |-> "init", applied |-> {}, raised |-> {}, stopped |-> FALSE,
     outcome |-> "none",
     predFlag |-> predFlag, shown |-> 0]

WorkerIds == 1..Len(workers)

\* Thread.is_alive() of a started thread
IsAlive(ws, w) == ws[w].pc # "done"

\* the voices of a system that has voices, each with its id and its display
\* name; the third is shown under the name of the first
SystemVoices ==
    <<[id |-> "v0", name |-> "n0"], [id |-> "v1", name |-> "n1"],
      [id |-> "v2", name |-> "n0"]>>

\* the label of a voice in the combobox: its name, these voices naming no
\* languages
VoiceLabel(v) == v.name

\* __init__: the probe engine reports no voice (or raises) or the voices of the
\* system; the combobox shows the default voice, which may be any of them
Init ==
    /\ voices \in {<<>>, SystemVoices}
    /\ cmb_voice \in IF voices = <<>> THEN {""}
                     ELSE {VoiceLabel(voices[i]) : i \in 1..Len(voices)}
    /\ messages = <<>>
    /\ next_id = 1
    /\ auto_speak = TRUE
    /\ current_worker = 0
    /\ workers = <<>>
    /\ status = StatusIdle
    /\ txt_log = <<>>
    /\ log_open = FALSE
    /\ timers = 0
    /\ ui = UiReady
    /\ dialogs = <<>>
    /\ now = 0
    /\ file = <<>>
    /\ sld_rate = DefaultRate * SliderUnit
    /\ sld_volume = ((DefaultVolume.num * 100) \div DefaultVolume.den) * SliderUnit
    /\ lastOp = Op("init", 0, <<>>)

\* the event loop dispatches a user request: the interactive thread is not
\* blocked in a join and no modal box holds the grab
UserReady == ui.pos = "ready" /\ dialogs = <<>>

\* the event loop runs: mainloop, or the loop of an open box
EventLoop == ui.pos \in {"ready", "ask"}

\* __init__ on a system with voices, the first of them the default
InitUsual ==
    /\ Init
    /\ voices = SystemVoices
    /\ cmb_voice = VoiceLabel(SystemVoices[1])

(* ------------------------------ controls ------------------------------ *)
\* _current_voice_id: None without a label or without voices, else the id of
\* the first voice with the label shown, else the id of the first voice
CurrentVoiceId ==
    IF cmb_voice = "" \/ voices = <<>> THEN "None"
    ELSE IF \E i \in 1..Len(voices) : VoiceLabel(voices[i]) = cmb_voice
    THEN voices[CHOOSE i \in 1..Len(voices) :
                    /\ VoiceLabel(voices[i]) = cmb_voice
                    /\ \A j \in 1..(i - 1) : VoiceLabel(voices[j]) # cmb_voice].id
    ELSE voices[1].id

\* the user picks entry i of the voice combobox
SetVoice(i) ==
    /\ UserReady
    /\ i \in 1..Len(voices)
    /\ cmb_voice' = VoiceLabel(voices[i])
    /\ lastOp' = Op("set_voice", i, <<>>)
    /\ UNCHANGED <<messages, next_id, auto_speak, current_worker, workers, status,
                   txt_log, log_open, timers, ui, dialogs, now, file, sld_rate,
                   sld_volume, voices>>

\* the user leaves the rate slider at position p
SetRate(p) ==
    /\ UserReady
    /\ sld_rate' = p
    /\ lastOp' = Op("set_rate", p, <<>>)
    /\ UNCHANGED <<messages, next_id, auto_speak, current_worker, workers, status,
                   txt_log, log_open, timers, ui, dialogs, now, file, sld_volume,
                   voices, cmb_voice>>

\* the user leaves the volume slider at position p
SetVolume(p) ==
    /\ UserReady
    /\ sld_volume' = p
    /\ lastOp' = Op("set_volume", p, <<>>)
    /\ UNCHANGED <<messages, next_id, auto_speak, current_worker, workers, status,
                   txt_log, log_open, timers, ui, dialogs, now, file, sld_rate,
                   voices, cmb_voice>>

(* --------------------------- speech lifecycle ------------------------- *)
\* a stop_speaking that never reaches SpeechWorker.stop
SignalStopNever(ws, cw) == ws

\* SpeechWorker.stop, called by stop_speaking when the current worker is alive
SignalStop(ws, cw) ==
    IF cw # 0 /\ IsAlive(ws, cw) THEN [ws EXCEPT ![cw].stop_flag = TRUE] ELSE ws

\* a _speak_text that calls stop_speaking() with its default, join=True
SpeakJoinDefault == TRUE

\* the join argument that _speak_text passes to stop_speaking
SpeakJoinArg == FALSE

\* _speak_text after stop_speaking has returned: construct the worker with the
\* workers as stop_speaking left them (ws), make it current, start it, schedule
\* the poll. cw is the outgoing current worker.
StartWorker(ws, cw, text) ==
    /\ Len(ws) < MaxWorkers
    /\ workers' = Append(ws, SpeechWorker(text, CurrentVoiceId, RateArg(sld_rate),
                                          VolumeArg(sld_volume),
                                          cw # 0 /\ ws[cw].stop_flag))
    /\ current_worker' = Len(ws) + 1
    /\ status' = StatusSpeaking
    /\ timers' = timers + 1
    /\ ui' = UiReady

\* a _speak_text that constructs and starts the new worker before it stops the
\* current one
SpeakTextLateStop(text) ==
    /\ Len(workers) < MaxWorkers
    /\ workers' = SignalStop(
           Append(workers,
                  SpeechWorker(text, CurrentVoiceId, RateArg(sld_rate),
                               VolumeArg(sld_volume),
                               current_worker # 0
                               /\ workers[current_worker].stop_flag)),
           current_worker)
    /\ current_worker' = Len(workers) + 1
    /\ status' = StatusSpeaking
    /\ timers' = timers + 1
    /\ ui' = UiReady

\* _speak_text(text)
SpeakText(text) ==
    LET cw == current_worker
        wasAlive == cw # 0 /\ IsAlive(workers, cw)
    IN  IF SpeakJoinArg /\ wasAlive
        THEN /\ Len(workers) < MaxWorkers
             /\ workers' = SignalStop(workers, cw)
             /\ ui' = UiJoin("speak", text)
             /\ UNCHANGED <<current_worker, status, timers>>
        ELSE StartWorker(SignalStop(workers, cw), cw, text)

\* the part of stop_speaking(join=True) before the join, and its end without
\* one. super().destroy() takes the open boxes with the window: the showerror
\* of a suspended poll raises, and the rest of that poll is not run.
StopSpeaking(cont) ==
    IF current_worker # 0 /\ IsAlive(workers, current_worker)
    THEN /\ workers' = SignalStop(workers, current_worker)
         /\ ui' = UiJoin(cont, <<>>)
         /\ UNCHANGED <<current_worker, status, timers, dialogs>>
    ELSE /\ status' = StatusStopped
         /\ ui' = IF cont = "destroy" THEN UiDestroyed ELSE UiReady
         /\ dialogs' = IF cont = "destroy" THEN <<>> ELSE dialogs
         /\ UNCHANGED <<current_worker, workers, timers>>

\* the stop button: stop_speaking()
StopButton ==
    /\ UserReady
    /\ StopSpeaking("stop")
    /\ lastOp' = Op("stop", 0, <<>>)
    /\ UNCHANGED controls
    /\ UNCHANGED <<messages, next_id, auto_speak, txt_log, log_open, now, file>>

\* destroy(): stop_speaking(join=True), then the window goes. The close
\* request reaches the window whenever the event loop runs, an open box
\* included.
Destroy ==
    /\ EventLoop
    /\ StopSpeaking("destroy")
    /\ lastOp' = Op("destroy", 0, <<>>)
    /\ UNCHANGED controls
    /\ UNCHANGED <<messages, next_id, auto_speak, txt_log, log_open, now, file>>

\* mainloop() returns once the window is destroyed; it is the last statement
\* of the program, and the interpreter ends, the daemon threads with it
Exit ==
    /\ ui.pos = "destroyed"
    /\ ui' = UiExited
    /\ lastOp' = Op("exit", 0, <<>>)
    /\ UNCHANGED controls
    /\ UNCHANGED <<messages, next_id, auto_speak, current_worker, workers, status,
                   txt_log, log_open, timers, dialogs, now, file>>

\* current_worker.join(timeout=0.5) returns, the thread having ended or not;
\* the caller goes on: stop_speaking sets the status, then its own caller's rest
JoinReturn ==
    /\ ui.pos = "join"
    /\ IF ui.cont = "speak"
       THEN StartWorker(workers, current_worker, ui.text) /\ UNCHANGED dialogs
       ELSE /\ status' = StatusStopped
            /\ ui' = IF ui.cont = "destroy" THEN UiDestroyed ELSE UiReady
            /\ dialogs' = IF ui.cont = "destroy" THEN <<>> ELSE dialogs
            /\ UNCHANGED <<current_worker, workers, timers>>
    /\ lastOp' = Op("join_return", 0, <<>>)
    /\ UNCHANGED controls
    /\ UNCHANGED <<messages, next_id, auto_speak, txt_log, log_open, now, file>>

\* a _poll_worker_done that does not call self.after when the worker is alive
PollNoReschedule ==
    /\ EventLoop
    /\ timers > 0
    /\ LET w == current_worker IN
       IF w = 0 \/ IsAlive(workers, w)
       THEN /\ timers' = timers - 1
            /\ UNCHANGED <<current_worker, workers, status, dialogs>>
       ELSE IF workers[w].exc
       THEN /\ timers' = timers - 1
            /\ dialogs' = Append(dialogs, w)
            /\ workers' = [workers EXCEPT ![w].shown = @ + 1]
            /\ UNCHANGED <<current_worker, status>>
       ELSE /\ timers' = timers - 1
            /\ current_worker' = 0
            /\ status' = StatusIdle
            /\ UNCHANGED <<workers, dialogs>>
    /\ lastOp' = Op("poll", 0, <<>>)
    /\ UNCHANGED controls
    /\ UNCHANGED <<messages, next_id, auto_speak, txt_log, log_open, ui, now, file>>

\* _poll_worker_done up to its return or to the opening of the error box
PollWorkerDone ==
    /\ EventLoop
    /\ timers > 0
    /\ LET w == current_worker IN
       IF w = 0
       THEN /\ timers' = timers - 1
            /\ UNCHANGED <<current_worker, workers, status, dialogs>>
       ELSE IF IsAlive(workers, w)
       THEN UNCHANGED <<timers, current_worker, workers, status, dialogs>>
       ELSE IF workers[w].exc
       THEN /\ timers' = timers - 1
            /\ dialogs' = Append(dialogs, w)
            /\ workers' = [workers EXCEPT ![w].shown = @ + 1]
            /\ UNCHANGED <<current_worker, status>>
       ELSE /\ timers' = timers - 1
            /\ current_worker' = 0
            /\ status' = StatusIdle
            /\ UNCHANGED <<workers, dialogs>>
    /\ lastOp' = Op("poll", 0, <<>>)
    /\ UNCHANGED controls
    /\ UNCHANGED <<messages, next_id, auto_speak, txt_log, log_open, ui, now, file>>

\* the message boxes that one click on an error box ends besides the error
\* boxes: the yes/no question of clear_log and the notices of export_log wait
\* on the same answer as showerror does; the file dialog waits on its own
MessageBoxes == {UiAsk("clear"), UiAsk("export_empty"), UiAsk("export_done")}

\* the user clicks OK on the error box: every open message box ends with that
\* click. Each showerror returns and the poll that opened it clears the
\* reference and sets the status; an askyesno under them returns False, so
\* clear_log ends without clearing, and a showinfo under them returns, so
\* export_log ends
DismissError ==
    /\ EventLoop
    /\ dialogs # <<>>
    /\ dialogs' = <<>>
    /\ current_worker' = 0
    /\ status' = StatusIdle
    /\ ui' = IF ui \in MessageBoxes THEN UiReady ELSE ui
    /\ lastOp' = Op("poll_end", 0, <<>>)
    /\ UNCHANGED controls
    /\ UNCHANGED <<messages, next_id, auto_speak, workers, txt_log, log_open, timers,
                   now, file>>

(* ------------------------- SpeechWorker.run --------------------------- *)
\* finally: del engine. The handle goes, and with it the properties it was set
\* to.
Finally(wr) == [wr EXCEPT !.applied = {}]

\* a run() whose handler for the cancellation records it like a failure
OnCancelRecorded(wr) ==
    [wr EXCEPT !.pc = "done", !.outcome = "cancelled", !.stopped = TRUE,
               !.applied = {}, !.exc = TRUE]

\* except SystemExit: the engine is stopped, nothing is recorded
OnCancel(wr) ==
    Finally([wr EXCEPT !.pc = "done", !.outcome = "cancelled", !.stopped = TRUE])

\* except Exception as e: self.exc = e
OnError(wr) ==
    Finally([wr EXCEPT !.pc = "done", !.outcome = "failed", !.exc = TRUE])

\* an on_word that does not look at the stop flag
OnWordIgnoresFlag(wr) == wr

\* on_word: raise SystemExit when the stop flag is set, else return and let the
\* engine speak the word
OnWord(wr) == IF wr.stop_flag THEN OnCancel(wr) ELSE wr

\* the threads are daemon threads: they run on after the window is destroyed,
\* until the interpreter ends
ThreadsRun == ui.pos # "exited"

\* a run() that sets the status line itself when it ends
ThreadStepSetsStatus(w, wr) ==
    /\ workers' = [workers EXCEPT ![w] = wr]
    /\ status' = IF wr.pc = "done" THEN StatusIdle ELSE status
    /\ lastOp' = Op("thread", 0, <<>>)
    /\ UNCHANGED controls
    /\ UNCHANGED <<messages, next_id, auto_speak, current_worker, txt_log, log_open,
                   timers, ui, dialogs, now, file>>

\* a step of the thread of session w: it leaves the session as wr
ThreadStep(w, wr) ==
    /\ workers' = [workers EXCEPT ![w] = wr]
    /\ lastOp' = Op("thread", 0, <<>>)
    /\ UNCHANGED controls
    /\ UNCHANGED <<messages, next_id, auto_speak, current_worker, status, txt_log, log_open,
                   timers, ui, dialogs, now, file>>

\* the engine properties that run() sets
PropNames == {"voice", "rate", "volume"}

\* the setProperty calls that run() makes: the voice only for a voice id that
\* is neither None nor empty
Attempted(wr) ==
    IF wr.voice_id \in {"", "None"} THEN PropNames \ {"voice"} ELSE PropNames

\* a run() with one try around the three setProperty calls: the first that
\* raises ends them; fails holds the properties the engine rejects
AppliedUntilFailure(wr, fails) ==
    IF "voice" \in Attempted(wr) \cap fails THEN {}
    ELSE IF "rate" \in fails THEN Attempted(wr) \ {"rate", "volume"}
    ELSE Attempted(wr) \ fails

\* the properties set by the three setProperty calls, each in a try of its
\* own; fails holds the properties the engine rejects
Applied(wr, fails) == Attempted(wr) \ fails

\* pyttsx3.init(), the three setProperty calls, connect and say: the engine is
\* ready and runAndWait is entered, or init raised. failures holds the sets of
\* properties that the engine may reject.
WInit(w, failures) ==
    /\ ThreadsRun
    /\ workers[w].pc = "init"
    /\ \E ok \in BOOLEAN, fails \in failures :
         ThreadStep(w, IF ok
                       THEN [workers[w] EXCEPT
                                !.pc = "speaking",
                                !.applied = Applied(workers[w], fails),
                                !.raised = Attempted(workers[w]) \cap fails]
                       ELSE OnError(workers[w]))

\* runAndWait: the engine starts a word and calls on_word
WWord(w) ==
    /\ ThreadsRun
    /\ workers[w].pc = "speaking"
    /\ ThreadStep(w, OnWord(workers[w]))

\* runAndWait and engine.stop() return: run ends normally
WFinish(w) ==
    /\ ThreadsRun
    /\ workers[w].pc = "speaking"
    /\ ThreadStep(w, Finally([workers[w] EXCEPT !.pc = "done",
                                                !.outcome = "completed",
                                                !.stopped = TRUE]))

\* say or runAndWait raises, or runAndWait returns and engine.stop() raises
\* (atStop): the call of engine.stop() was then made. stops tells whether the
\* engine may raise in stop().
WFail(w, stops) ==
    /\ ThreadsRun
    /\ workers[w].pc = "speaking"
    /\ \E atStop \in stops :
         ThreadStep(w, OnError([workers[w] EXCEPT !.stopped = atStop]))

(* ------------------------- history and transcript --------------------- *)
\* a send_message that takes the input box as it is
InputTextRaw(raw) == raw

\* the text send_message reads from the input box
InputText(raw) == Strip(raw)

\* _append_log: the line inserted for a message, as the lines it adds to the view
LogLines(msg) ==
    SplitLines(<<"[">> \o FormatId(msg.id) \o <<SP>> \o FormatTime(msg.ts)
               \o <<"]", SP>> \o msg.text)

\* the lines of the Text widget, the last one being the line that the
\* widget's own final newline ends
WidgetLines(lines, open) == IF open THEN lines ELSE Append(lines, <<>>)

\* all but the last element
Front(seq) == SubSeq(seq, 1, Len(seq) - 1)

\* txt_log.insert('end', line) of _append_log: the text goes before the final
\* newline of the widget, so its first line continues the widget's last line,
\* and the newline that ends it leaves an empty last line
InsertAtEnd(wl, added) ==
    Front(wl) \o <<wl[Len(wl)] \o Head(added)>> \o Tail(added) \o << <<>> >>

\* the entry lines of a widget content: an empty last line is the widget's own
LogOf(wl) == IF wl[Len(wl)] = <<>> THEN Front(wl) ELSE wl
LogOpen(wl) == wl[Len(wl)] # <<>>

\* send_message(); t is what time.time() returns
SendMessage(raw, t) ==
    /\ UserReady
    /\ t >= now
    /\ lastOp' = Op("send", 0, raw)
    /\ UNCHANGED controls
    /\ LET text == InputText(raw)
           msg == Message(next_id, t, text)
       IN  IF text = <<>>
           THEN UNCHANGED <<messages, next_id, txt_log, log_open, current_worker,
                            workers, status, timers, ui, now>>
           ELSE /\ next_id <= MaxMsgs
                /\ next_id' = next_id + 1
                /\ now' = t
                /\ messages' = Append(messages, msg)
                /\ txt_log' = LogOf(InsertAtEnd(WidgetLines(txt_log, log_open),
                                                LogLines(msg)))
                /\ log_open' = FALSE
                /\ IF auto_speak
                   THEN SpeakText(text)
                   ELSE UNCHANGED <<current_worker, workers, status, timers, ui>>
    /\ UNCHANGED <<auto_speak, dialogs, file>>

\* the auto-speak check button
ToggleAuto ==
    /\ UserReady
    /\ auto_speak' = ~auto_speak
    /\ lastOp' = Op("toggle_auto", 0, <<>>)
    /\ UNCHANGED controls
    /\ UNCHANGED <<messages, next_id, current_worker, workers, status, txt_log, log_open,
                   timers, ui, dialogs, now, file>>

\* a replay_last that submits the last text again
ReplayLastResubmits ==
    /\ UserReady
    /\ lastOp' = Op("replay_last", 0, <<>>)
    /\ UNCHANGED controls
    /\ IF messages = <<>>
       THEN UNCHANGED <<messages, next_id, current_worker, workers, status,
                        timers, ui>>
       ELSE /\ next_id <= MaxMsgs
            /\ next_id' = next_id + 1
            /\ messages' = Append(messages,
                                  Message(next_id, now, messages[Len(messages)].text))
            /\ SpeakText(messages[Len(messages)].text)
    /\ UNCHANGED <<auto_speak, txt_log, log_open, dialogs, now, file>>

\* replay_last()
ReplayLast ==
    /\ UserReady
    /\ lastOp' = Op("replay_last", 0, <<>>)
    /\ UNCHANGED controls
    /\ IF messages = <<>>
       THEN UNCHANGED <<current_worker, workers, status, timers, ui>>
       ELSE SpeakText(messages[Len(messages)].text)
    /\ UNCHANGED <<messages, next_id, auto_speak, txt_log, log_open, dialogs, now, file>>

\* _ctx_replay: the text after the first ']' of the clicked line, stripped
ReplayTextOf(line) ==
    IF Contains(line, "]") THEN Strip(SplitRest(line, "]")) ELSE Strip(line)

\* _ctx_replay() after a right click on line i of the widget
CtxReplay(i) ==
    /\ UserReady
    /\ i \in 1..Len(WidgetLines(txt_log, log_open))
    /\ LET line == WidgetLines(txt_log, log_open)[i]
       IN  /\ lastOp' = Op("ctx_replay", 0, ReplayTextOf(line))
           /\ IF ReplayTextOf(line) = <<>>
              THEN UNCHANGED <<current_worker, workers, status, timers, ui>>
              ELSE SpeakText(ReplayTextOf(line))
    /\ UNCHANGED controls
    /\ UNCHANGED <<messages, next_id, auto_speak, txt_log, log_open, dialogs, now, file>>

\* _ctx_delete reaches the assignment of self.messages: the line starts with
\* '[', holds a ']', and int(id_part.split()[0][1:]) returns
HasLineId(line) ==
    /\ line # <<>> /\ Head(line) = "[" /\ Contains(line, "]")
    /\ Words(SplitHead(line, "]")) # <<>>
    /\ IntOk(Tail(Words(SplitHead(line, "]"))[1]))

\* msg_id of _ctx_delete: int(id_part.split()[0][1:]); "None" when the
\* assignment is not reached
LineId(line) ==
    IF HasLineId(line) THEN ParseInt(Tail(Words(SplitHead(line, "]"))[1]))
    ELSE "None"

\* a _ctx_delete that takes the id for the position in the history
RemoveByPosition(msgs, k) ==
    IF k \in 1..Len(msgs)
    THEN SubSeq(msgs, 1, k - 1) \o SubSeq(msgs, k + 1, Len(msgs))
    ELSE msgs

\* [m for m in self.messages if m.id != msg_id]
RemoveById(msgs, k) ==
    LET Keep(m) == m.id # k IN SelectSeq(msgs, Keep)

\* txt_log.delete(line_start, line_end + 1c) for line i of the widget: the
\* line goes with the newline that ends it; for the last line that newline is
\* the widget's own, which stays, and the newline before the line goes instead
RemoveLine(lines, i) ==
    IF i < Len(lines)
    THEN SubSeq(lines, 1, i - 1) \o SubSeq(lines, i + 1, Len(lines))
    ELSE IF Len(lines) = 1 THEN << <<>> >>
    ELSE Front(lines)

\* _ctx_delete() after a right click on line i of the widget
CtxDelete(i) ==
    /\ UserReady
    /\ i \in 1..Len(WidgetLines(txt_log, log_open))
    /\ LET wl == WidgetLines(txt_log, log_open)
           line == wl[i]
       IN  /\ lastOp' = Op("ctx_delete", 0, line)
           /\ messages' = IF HasLineId(line)
                          THEN RemoveById(messages, LineId(line))
                          ELSE messages
           /\ txt_log' = LogOf(RemoveLine(wl, i))
           /\ log_open' = LogOpen(RemoveLine(wl, i))
    /\ UNCHANGED controls
    /\ UNCHANGED <<next_id, auto_speak, current_worker, workers, status, timers,
                   ui, dialogs, now, file>>

\* clear_log() up to askyesno: it returns at once on an empty history, else
\* the question box opens and the handler waits in the loop of the box
ClearLog ==
    /\ UserReady
    /\ lastOp' = Op("clear_ask", 0, <<>>)
    /\ ui' = IF messages = <<>> THEN ui ELSE UiAsk("clear")
    /\ UNCHANGED controls
    /\ UNCHANGED <<messages, next_id, auto_speak, current_worker, workers, status,
                   txt_log, log_open, timers, dialogs, now, file>>

\* a clear_log that starts the ids again at 1
ClearLogResetIds(yes) ==
    /\ ui = UiAsk("clear")
    /\ dialogs = <<>>
    /\ lastOp' = Op("clear", IF yes THEN 1 ELSE 0, <<>>)
    /\ ui' = UiReady
    /\ UNCHANGED controls
    /\ IF yes
       THEN messages' = <<>> /\ txt_log' = <<>> /\ log_open' = FALSE /\ next_id' = 1
       ELSE UNCHANGED <<messages, txt_log, log_open, next_id>>
    /\ UNCHANGED <<auto_speak, current_worker, workers, status, timers,
                   dialogs, now, file>>

\* clear_log() from the return of askyesno; yes is the answer. The box is
\* answered when no error box lies over it.
ClearLogAnswer(yes) ==
    /\ ui = UiAsk("clear")
    /\ dialogs = <<>>
    /\ lastOp' = Op("clear", IF yes THEN 1 ELSE 0, <<>>)
    /\ ui' = UiReady
    /\ UNCHANGED controls
    /\ IF yes
       THEN messages' = <<>> /\ txt_log' = <<>> /\ log_open' = FALSE
       ELSE UNCHANGED <<messages, txt_log, log_open>>
    /\ UNCHANGED <<next_id, auto_speak, current_worker, workers, status, timers,
                   dialogs, now, file>>

\* one written line: f"[{m.id:03d} {ts}] {m.text}\n"
ExportLine(m) ==
    <<"[">> \o FormatId(m.id) \o <<SP>> \o FormatDateTime(m.ts) \o <<"]", SP>>
    \o m.text \o <<NL>>

\* the content export_log writes for the history
RECURSIVE ExportText(_)
ExportText(msgs) ==
    IF msgs = <<>> THEN <<>> ELSE ExportLine(Head(msgs)) \o ExportText(Tail(msgs))

\* export_log() up to its first box: the notice of an empty history, or the
\* file dialog
ExportLog ==
    /\ UserReady
    /\ lastOp' = Op("export_ask", 0, <<>>)
    /\ ui' = IF messages = <<>> THEN UiAsk("export_empty") ELSE UiAsk("export_file")
    /\ UNCHANGED controls
    /\ UNCHANGED <<messages, next_id, auto_speak, current_worker, workers, status,
                   txt_log, log_open, timers, dialogs, now, file>>

\* export_log() from the return of asksaveasfilename; chosen tells whether it
\* returned a path. With a path the file is written and the notice opens.
ExportLogAnswer(chosen) ==
    /\ ui = UiAsk("export_file")
    /\ dialogs = <<>>
    /\ lastOp' = Op("export", IF chosen THEN 1 ELSE 0, <<>>)
    /\ file' = IF chosen THEN ExportText(messages) ELSE file
    /\ ui' = IF chosen THEN UiAsk("export_done") ELSE UiReady
    /\ UNCHANGED controls
    /\ UNCHANGED <<messages, next_id, auto_speak, current_worker, workers, status,
                   txt_log, log_open, timers, dialogs, now>>

\* the user closes a notice of export_log: showinfo returns, and so does the
\* handler
ExportLogEnd ==
    /\ ui \in {UiAsk("export_empty"), UiAsk("export_done")}
    /\ dialogs = <<>>
    /\ lastOp' = Op("export_end", 0, <<>>)
    /\ ui' = UiReady
    /\ UNCHANGED controls
    /\ UNCHANGED <<messages, next_id, auto_speak, current_worker, workers, status,
                   txt_log, log_open, timers, dialogs, now, file>>

(* --------------------------- specifications --------------------------- *)
\* the inputs of the session specification: blank, and two padded words
SessionTexts == { <<SP, NL>>, <<SP, "a", SP, "b">> }

\* those of them that leave a text to speak
SpokenTexts == { raw \in SessionTexts : Strip(raw) # <<>> }

\* an engine that accepts every property, and one that may reject any
NoPropFailure == {{}}
AnyPropFailure == SUBSET PropNames

\* an engine whose stop() returns, and one whose stop() may raise
NoStopFailure == {FALSE}
AnyStopFailure == BOOLEAN

\* the lines of the widget that a right click can hit, and those of them that
\* hold text
ClickLines == 1..Len(WidgetLines(txt_log, log_open))
EntryLines == 1..Len(txt_log)

\* the SpeechWorker threads
Threads(failures, stops) ==
    \E w \in WorkerIds :
        WInit(w, failures) \/ WWord(w) \/ WFinish(w) \/ WFail(w, stops)

\* a submit where the history is not the subject: one that appends a message
\* is made while fewer than MaxSessionMsgs messages were submitted
SessionSubmit(raw, t) ==
    /\ InputText(raw) # <<>> => next_id <= MaxSessionMsgs
    /\ SendMessage(raw, t)

\* the handlers that reach _speak_text: submit, replay-last, replay-one
Requests(texts, lines) ==
    \/ \E raw \in texts : SessionSubmit(raw, now)
    \/ ReplayLast
    \/ \E i \in lines : CtxReplay(i)

\* what follows a speak request while the window is open: stop, the return
\* of a join, the polls, and the threads on an engine that accepts the
\* properties it is given and whose stop() returns
Lifecycle ==
    \/ StopButton
    \/ JoinReturn
    \/ PollWorkerDone
    \/ DismissError
    \/ Threads(NoPropFailure, NoStopFailure)

\* The sessions while the window is open: every handler that touches a
\* session or can run beside one, and the threads. The clock stands still, the
\* history is only appended to and nothing is exported. The system has voices
\* and the combobox is left alone.
Sessions(texts, lines) == Requests(texts, lines) \/ Lifecycle

\* the sessions, the close request and the end of the program
Next == Sessions(SessionTexts, ClickLines) \/ Destroy \/ Exit

Spec == InitUsual /\ [][Next]_vars

\* The sessions under the scheduling of the program, for as long as the
\* window is open: the event loop runs a due poll callback and a join returns
\* within its timeout. An error box stays for as long as the user leaves it:
\* nothing makes them click. The submits are those
\* with a text and the lines replayed those of the entries: a blank submit and
\* a replay of the empty last line return at once and change nothing the
\* scheduling looks at.
NextFair == Sessions(SpokenTexts, EntryLines)

FairSpec ==
    /\ InitUsual /\ [][NextFair]_vars
    /\ WF_vars(PollWorkerDone) /\ WF_vars(JoinReturn)

\* The history and the transcript: every handler that writes them, with
\* auto-speak switched on and off. The clock stands still. Sessions are started
\* and replaced, and stay at the start of run().
NextLog ==
    \/ \E raw \in InputTexts : SessionSubmit(raw, now)
    \/ ToggleAuto
    \/ \E i \in ClickLines : CtxDelete(i)
    \/ ClearLog
    \/ \E yes \in BOOLEAN : ClearLogAnswer(yes)

SpecLog == InitUsual /\ [][NextLog]_vars

\* The deletions: a history of up to MaxMsgs messages, submitted with
\* auto-speak on and deleted line by line. A text is one line, or two with a
\* second line that reads like the first line of an entry, or reads like the
\* head of an entry itself. The clock stands still. Sessions are started and
\* replaced, and stay at the start of run().
DeleteTexts ==
    { <<SP, "a", SP>>, <<"b", NL, "[", "1", "]", SP, "c">>, <<"[", "1", "]">> }

NextDelete ==
    \/ \E raw \in DeleteTexts : SendMessage(raw, now)
    \/ \E i \in ClickLines : CtxDelete(i)

SpecDelete == InitUsual /\ [][NextDelete]_vars

\* The export file: the handlers that write the history, and export_log, on a
\* system with or without voices; the voice is picked between the submits.
NextExport ==
    \/ \E i \in 1..Len(SystemVoices) : SetVoice(i)
    \/ \E raw \in InputTexts, t \in 0..MaxTime : SessionSubmit(raw, t)
    \/ \E i \in ClickLines : CtxDelete(i)
    \/ ClearLog
    \/ \E yes \in BOOLEAN : ClearLogAnswer(yes)
    \/ ExportLog
    \/ \E chosen \in BOOLEAN : ExportLogAnswer(chosen)
    \/ ExportLogEnd

SpecExport == Init /\ [][NextExport]_vars

\* The whole panel but for the controls: the sessions together with delete-one,
\* clear and export. At most MaxPanelWorkers sessions are started.
NextPanel ==
    \/ Len(workers) < MaxPanelWorkers /\ Requests(SpokenTexts, ClickLines)
    \/ Lifecycle
    \/ Destroy
    \/ Exit
    \/ \E i \in ClickLines : CtxDelete(i)
    \/ ClearLog
    \/ \E yes \in BOOLEAN : ClearLogAnswer(yes)
    \/ ExportLog
    \/ \E chosen \in BOOLEAN : ExportLogAnswer(chosen)
    \/ ExportLogEnd

SpecPanel == InitUsual /\ [][NextPanel]_vars

\* The controls: the sliders are moved between the submits. Sessions are
\* started and replaced, and stay at the start of run().
NextControls ==
    \/ \E p \in RateStops : SetRate(p)
    \/ \E p \in VolumeStops : SetVolume(p)
    \/ \E raw \in SessionTexts : SessionSubmit(raw, now)

SpecControls == InitUsual /\ [][NextControls]_vars

\* The engine: sessions are started by submits and run to their end on an
\* engine that may reject any of the properties and raise in stop(); the polls
\* report. The system has voices, with any of them the default, or none.
NextEngine ==
    \/ \E raw \in SpokenTexts : SessionSubmit(raw, now)
    \/ PollWorkerDone
    \/ DismissError
    \/ Threads(AnyPropFailure, AnyStopFailure)

SpecEngine == Init /\ [][NextEngine]_vars

(* ------------------------------- claims ------------------------------- *)
Running == {w \in WorkerIds : IsAlive(workers, w)}

\* a text that is empty or whitespace only
Blank(text) == \A i \in 1..Len(text) : text[i] \in {SP, NL, "\t"}

\* the step is a request that reaches _speak_text: a submit of non-blank text
\* with auto-speak on, a replay-last with a history, a replay-one of a line with
\* a text
SpeakIssued ==
    \/ lastOp'.op = "send" /\ ~Blank(lastOp'.text) /\ auto_speak
    \/ lastOp'.op = "replay_last" /\ messages # <<>>
    \/ lastOp'.op = "ctx_replay" /\ lastOp'.text # <<>>

\* C1 as stated: in every reachable state at most one SpeechWorker thread is
\* running.
C1_AtMostOneRunning == Cardinality(Running) <= 1

\* C1 amended: in every reachable state every running session other than the
\* current one has its cancel flag set, so at most one running session is not
\* cancelled; cancelled predecessors may still be running beside it.
C1_AtMostOneRunningUncancelled ==
    \A w \in Running : ~workers[w].stop_flag => w = current_worker

C1_Witness ==
    \E v, w \in Running :
        /\ v # w
        /\ w = current_worker
        /\ workers[v].stop_flag
        /\ workers[v].pc = "speaking"
        /\ workers[w].pc = "speaking"

\* C2: a step that constructs a new session makes it the current session, and
\* when the outgoing current session is running in that step, its cancel flag
\* is set by the step and was already set when the new session was constructed.
C2_CancelBeforeReplace ==
    [][Len(workers') > Len(workers) =>
          /\ Len(workers') = Len(workers) + 1
          /\ current_worker' = Len(workers')
          /\ (current_worker # 0 /\ IsAlive(workers, current_worker)) =>
                /\ workers'[current_worker].stop_flag
                /\ workers'[Len(workers')].predFlag]_vars

C2_Witness ==
    /\ lastOp.op = "replay_last"
    /\ current_worker = Len(workers)
    /\ Len(workers) >= 2
    /\ workers[current_worker].predFlag
    /\ \E v \in Running : v # current_worker /\ workers[v].stop_flag
                          /\ workers[v].pc = "speaking"

\* C3: a session that ended because on_word saw the cancel flag has no captured
\* failure, and no error box was ever opened for it.
C3_CancelIsNoFailure ==
    \A w \in WorkerIds :
        workers[w].outcome = "cancelled" => ~workers[w].exc /\ workers[w].shown = 0

C3_Witness ==
    /\ lastOp.op = "poll"
    /\ current_worker = 0
    /\ timers = 0
    /\ \E w \in WorkerIds : workers[w].outcome = "cancelled" /\ workers[w].stop_flag

\* C4 as stated, in the form a finite run decides: a failure captured by a
\* session that was not cancelled, and that no poll has shown yet, belongs to
\* the current session, the only one a later poll looks at (a session that is
\* no longer current never becomes current again).
C4_FailureReachesPoll ==
    \A w \in WorkerIds :
        (workers[w].exc /\ ~workers[w].stop_flag /\ workers[w].shown = 0)
            => current_worker = w

\* C5 as stated: while the window is open, once the current session's thread
\* has ended the polls lead to a state where the reference is cleared and the
\* status is idle, unless a further speak replaces the session (the current
\* session is then a running one); and a poll that finds the current session
\* running changes nothing, its timer included.
C5_PollSettles ==
    /\ (current_worker # 0 /\ ~IsAlive(workers, current_worker))
          ~> \/ current_worker = 0 /\ status = StatusIdle
             \/ current_worker # 0 /\ IsAlive(workers, current_worker)
    /\ [][(lastOp'.op = "poll" /\ current_worker # 0
                              /\ IsAlive(workers, current_worker))
            => UNCHANGED <<messages, next_id, auto_speak, current_worker, workers,
                           status, txt_log, log_open, timers, ui, dialogs, now, file>>]_vars

\* C5, amended: while the window is open, once the current session's thread
\* has ended the polls lead to a state where the reference is cleared and the
\* status is idle, or a further speak has replaced the session by a running
\* one, or the session has failed and its error box is open. The box is
\* opened only for a current session that has failed; it stays until the user
\* clicks, and the step of that click clears the reference, sets the status
\* idle and closes every box. A poll that finds the current session running
\* changes nothing, its timer included.
C5_PollSettlesOrAsks ==
    /\ (current_worker # 0 /\ ~IsAlive(workers, current_worker))
          ~> \/ current_worker = 0 /\ status = StatusIdle
             \/ current_worker # 0 /\ IsAlive(workers, current_worker)
             \/ /\ current_worker # 0 /\ workers[current_worker].exc
                /\ dialogs # <<>>
    /\ [][(lastOp'.op = "poll" /\ current_worker # 0
                              /\ IsAlive(workers, current_worker))
            => UNCHANGED <<messages, next_id, auto_speak, current_worker, workers,
                           status, txt_log, log_open, timers, ui, dialogs, now, file>>]_vars
    /\ [][Len(dialogs') > Len(dialogs) =>
             /\ current_worker # 0 /\ ~IsAlive(workers, current_worker)
             /\ workers[current_worker].exc
             /\ dialogs' = Append(dialogs, current_worker)
             /\ UNCHANGED <<current_worker, status>>]_vars
    /\ [][(dialogs # <<>> /\ dialogs' # dialogs /\ Len(dialogs') <= Len(dialogs)) =>
             /\ dialogs' = <<>>
             /\ current_worker' = 0
             /\ status' = StatusIdle]_vars

\* the polls have cleared the reference and set the status idle after each
\* kind of end: the first session failed, its error box was opened and the
\* user has dismissed it; the second ran to its end; the third, the last
\* current session, was cancelled by the stop button
C5_Witness ==
    /\ lastOp.op = "poll"
    /\ current_worker = 0
    /\ status = StatusIdle
    /\ dialogs = <<>>
    /\ Len(workers) = 3
    /\ workers[1].outcome = "failed" /\ workers[1].shown = 1
    /\ workers[2].outcome = "completed"
    /\ workers[3].outcome = "cancelled" /\ workers[3].stop_flag

\* C6: a request that reaches _speak_text starts the new session in the same
\* step and leaves the interactive thread free: the outgoing running session
\* only gets its flag set and is where it was; the interactive thread enters a
\* join only in stop and in destroy.
C6_SpeakNeverWaits ==
    [][/\ SpeakIssued =>
            /\ ui'.pos = "ready"
            /\ Len(workers') = Len(workers) + 1
            /\ (current_worker # 0 /\ IsAlive(workers, current_worker)) =>
                  workers'[current_worker] =
                      [workers[current_worker] EXCEPT !.stop_flag = TRUE]
       /\ (ui'.pos = "join" /\ ui.pos # "join") =>
            lastOp'.op \in {"stop", "destroy"}]_vars

C6_Witness ==
    /\ lastOp.op = "send"
    /\ current_worker # 0
    /\ current_worker = Len(workers)
    /\ workers[current_worker].pc = "init"
    /\ \E v \in Running : v # current_worker /\ workers[v].stop_flag
                          /\ workers[v].pc = "init"

\* the second of two submits from the empty history with auto-speak on and no
\* other speak request between them: message 1 is the history, its session the
\* only one made so far
SecondSubmit ==
    /\ lastOp'.op = "send" /\ ~Blank(lastOp'.text)
    /\ auto_speak
    /\ next_id = 2 /\ Len(messages) = 1 /\ messages[1].id = 1
    /\ Len(workers) = 1

TwoMessagesInOrder ==
    /\ Len(messages') = 2
    /\ messages'[1] = messages[1]
    /\ messages'[2].id = 2
    /\ messages'[2].text = Strip(lastOp'.text)

\* C10 as stated: after the second submit there are two sessions, the first
\* has its cancel flag set and had it when the second was constructed, and the
\* history is the two messages, ids 1 and 2, in submission order.
C10_SecondSubmitCancelsFirst ==
    [][SecondSubmit =>
          /\ Len(workers') = 2
          /\ workers'[1].stop_flag
          /\ workers'[2].predFlag
          /\ TwoMessagesInOrder]_vars

\* C10 amended: the same, with the cancel signal only for a first session that
\* is still running when the second submit is handled.
C10_SecondSubmitCancelsRunningFirst ==
    [][SecondSubmit =>
          /\ Len(workers') = 2
          /\ IsAlive(workers, 1) => workers'[1].stop_flag /\ workers'[2].predFlag
          /\ ~IsAlive(workers, 1) => workers'[1] = workers[1]
          /\ TwoMessagesInOrder]_vars

C10_Witness ==
    /\ lastOp.op = "send"
    /\ next_id = 3 /\ Len(messages) = 2
    /\ Len(workers) = 2
    /\ workers[1].stop_flag /\ workers[1].pc = "speaking"
    /\ workers[2].predFlag /\ workers[2].pc = "init"


\* C7: a delete-one of a line whose head names id k removes from the history
\* the one message with id k when there is one (nothing otherwise), keeps the
\* others in their order, and leaves the sessions, the current-session
\* reference, the status, the poll timers and the interactive thread as they
\* were.
C7_DeleteRemovesOne ==
    [][lastOp'.op = "ctx_delete" =>
          LET at == IF HasLineId(lastOp'.text)
                    THEN {i \in 1..Len(messages) :
                             messages[i].id = LineId(lastOp'.text)}
                    ELSE {}
          IN  /\ Cardinality(at) <= 1
              /\ \A i \in at :
                    messages' = SubSeq(messages, 1, i - 1)
                                \o SubSeq(messages, i + 1, Len(messages))
              /\ at = {} => messages' = messages
              /\ UNCHANGED <<next_id, current_worker, workers, status, timers, ui>>]_vars

C7_Witness ==
    /\ lastOp.op = "ctx_delete"
    /\ HasLineId(lastOp.text) /\ LineId(lastOp.text) = 2
    /\ next_id = 4
    /\ Len(messages) = 2
    /\ messages[1].id = 1 /\ messages[2].id = 3
    /\ current_worker # 0
    /\ IsAlive(workers, current_worker) /\ ~workers[current_worker].stop_flag

\* C8: a submit of empty or whitespace-only input changes neither the history,
\* the next id and the transcript nor any session, the current-session
\* reference, the status, the poll timers and the interactive thread, with
\* auto-speak on or off.
C8_BlankSubmitIsNoOp ==
    [][(lastOp'.op = "send" /\ Blank(lastOp'.text)) =>
          UNCHANGED <<messages, next_id, txt_log, log_open, current_worker, workers, status,
                      timers, ui, auto_speak>>]_vars

C8_Witness ==
    /\ lastOp.op = "send"
    /\ lastOp.text = <<SP, NL>>
    /\ auto_speak
    /\ messages # <<>>
    /\ current_worker # 0
    /\ IsAlive(workers, current_worker) /\ ~workers[current_worker].stop_flag

\* the lines of a text file: its content cut at the newlines
FileLines(f) ==
    IF f # <<>> /\ f[Len(f)] = NL
    THEN SplitLines(SubSeq(f, 1, Len(f) - 1))
    ELSE SplitLines(f)

\* a line read in the format "[id timestamp] text": the id up to the first
\* space, the timestamp up to the first ']', the text after "] ". A line that
\* is not in the format reads as id -1.
ReadLine(line) ==
    LET head == IF Contains(line, "]") THEN SplitHead(line, "]") ELSE <<>>
        rest == IF Contains(line, "]") THEN SplitRest(line, "]") ELSE <<>>
    IN  IF /\ head # <<>> /\ Head(head) = "["
           /\ Contains(head, SP)
           /\ rest # <<>> /\ Head(rest) = SP
        THEN [id |-> IF IntOk(SplitHead(Tail(head), SP))
                     THEN ParseInt(SplitHead(Tail(head), SP)) ELSE -1,
              ts |-> SplitRest(head, SP),
              text |-> Tail(rest)]
        ELSE [id |-> -1, ts |-> <<>>, text |-> line]

ReadBack(f) == [i \in 1..Len(FileLines(f)) |-> ReadLine(FileLines(f)[i])]

\* C9 as stated: the file just exported reads back, line by line, as the
\* history: one line per message, with its id, its formatted timestamp and its
\* exact text, in order.
C9_ExportReadsBack ==
    (lastOp.op = "export" /\ lastOp.n = 1 /\ messages # <<>>) =>
        ReadBack(file) =
            [i \in 1..Len(messages) |->
                [id |-> messages[i].id,
                 ts |-> FormatDateTime(messages[i].ts),
                 text |-> messages[i].text]]

\* C11: in every reachable state the ids of the history are strictly increasing
\* in history order (hence pairwise distinct) and smaller than next_id; a
\* submit of non-blank text appends exactly one message, whose id is the
\* next_id of before, and raises next_id by one; no step lowers next_id, so an
\* id that was issued is not issued again after a delete or a clear.
C11_FreshIds ==
    /\ [](/\ \A i, j \in 1..Len(messages) :
                i < j => messages[i].id < messages[j].id
          /\ \A i \in 1..Len(messages) : messages[i].id < next_id)
    /\ [][/\ next_id' >= next_id
          /\ (lastOp'.op = "send" /\ ~Blank(lastOp'.text)) =>
                /\ Len(messages') = Len(messages) + 1
                /\ SubSeq(messages', 1, Len(messages)) = messages
                /\ messages'[Len(messages')].id = next_id
                /\ next_id' = next_id + 1]_vars

\* a submit after message 1 was deleted or cleared: the new message has id 2
C11_Witness ==
    /\ lastOp.op = "send" /\ ~Blank(lastOp.text)
    /\ next_id = 3
    /\ Len(messages) = 1 /\ messages[1].id = 2

\* C12: the session constructed by a step gets as its rate the rate slider's
\* value when that value is an integer, and as its volume the volume slider's
\* value divided by 100, a value within [0, 1]: 0 at the slider's low end and
\* 1 at its high end. The conversion hands on every integer of 80..260, and it
\* clamps a value below 0 to 0 and a value above 100 to 1.
C12_SliderValues ==
    /\ [][Len(workers') > Len(workers) =>
            LET s == workers'[Len(workers')] IN
            /\ sld_rate % SliderUnit = 0 => s.rate * SliderUnit = sld_rate
            /\ RatEq(s.volume, Ratio(sld_volume, 100 * SliderUnit))
            /\ ~RatLess(s.volume, Ratio(0, 1)) /\ ~RatLess(Ratio(1, 1), s.volume)
            /\ sld_volume = VolumeFrom * SliderUnit => RatEq(s.volume, Ratio(0, 1))
            /\ sld_volume = VolumeTo * SliderUnit => RatEq(s.volume, Ratio(1, 1))]_vars
    /\ [](/\ \A v \in RateFrom..RateTo : RateArg(v * SliderUnit) = v
          /\ \A p \in (VolumeFrom * SliderUnit)..(VolumeTo * SliderUnit) :
                RatEq(VolumeArg(p), Ratio(p, 100 * SliderUnit))
          /\ RatEq(VolumeArg(VolumeFrom * SliderUnit - 1), Ratio(0, 1))
          /\ RatEq(VolumeArg(VolumeTo * SliderUnit + 1), Ratio(1, 1)))

\* two sessions, one made with both sliders at the low end and one with both
\* at the high end
C12_Witness ==
    /\ lastOp.op = "send"
    /\ \E v, w \in WorkerIds :
          /\ workers[v].rate = RateFrom /\ RatEq(workers[v].volume, Ratio(0, 1))
          /\ workers[w].rate = RateTo /\ RatEq(workers[w].volume, Ratio(1, 1))

\* C13: a session whose cancel flag is set while it is in runAndWait ends with
\* its next step: no word callback returns normally for it (a thread step that
\* leaves every session as it was is the word callback of a session without
\* the flag); when that step is a word callback or the return of the engine,
\* and not an exception of the engine, engine.stop() has been called. A
\* session ended by the word callback had its flag set, is not running and has
\* its engine stopped.
C13_AbortAtNextWord ==
    /\ [][/\ \A w \in WorkerIds :
               (/\ workers[w].pc = "speaking" /\ workers[w].stop_flag
                /\ workers'[w] # workers[w]) =>
                   /\ workers'[w].pc = "done"
                   /\ workers'[w].outcome # "failed" =>
                         workers'[w].stopped
          /\ (lastOp'.op = "thread" /\ workers' = workers) =>
               \E w \in WorkerIds :
                   workers[w].pc = "speaking" /\ ~workers[w].stop_flag]_vars
    /\ [](\A w \in WorkerIds :
             workers[w].outcome = "cancelled" =>
                 /\ workers[w].stop_flag
                 /\ workers[w].pc = "done"
                 /\ workers[w].stopped)

\* a session cancelled by the stop button while speaking has been ended by
\* its word callback
C13_Witness ==
    /\ lastOp.op = "thread"
    /\ ui.pos = "join" /\ ui.cont = "stop"
    /\ current_worker # 0
    /\ workers[current_worker].outcome = "cancelled"
    /\ workers[current_worker].stopped

\* C14: a stop flag changes only in a step of the interactive thread; exc
\* changes only in a step of a background thread, from empty to set, of a
\* session that was running and ends with that step, so at most once; a step
\* of a background thread changes one session and nothing of the history, the
\* transcript, the current-session reference, the status, the timers, the
\* error boxes and the controls; an error box is opened, and the reference is
\* cleared, only by a poll (or its end) that found the current session not
\* alive.
C14_OneWriter ==
    [][/\ \A w \in WorkerIds :
            /\ workers'[w].stop_flag # workers[w].stop_flag =>
                  lastOp'.op # "thread"
            /\ workers'[w].exc # workers[w].exc =>
                  /\ lastOp'.op = "thread"
                  /\ ~workers[w].exc
                  /\ IsAlive(workers, w) /\ ~IsAlive(workers', w)
       /\ lastOp'.op = "thread" =>
            /\ Len(workers') = Len(workers)
            /\ Cardinality({w \in WorkerIds : workers'[w] # workers[w]}) <= 1
            /\ UNCHANGED <<messages, next_id, auto_speak, current_worker, status,
                           txt_log, log_open, timers, ui, dialogs, now, file, controls>>
       /\ Len(dialogs') > Len(dialogs) =>
            /\ lastOp'.op = "poll"
            /\ current_worker # 0
            /\ ~IsAlive(workers, current_worker)
            /\ workers[current_worker].exc
       /\ (current_worker # 0 /\ current_worker' = 0) =>
            /\ lastOp'.op \in {"poll", "poll_end"}
            /\ ~IsAlive(workers, current_worker)]_vars

\* the thread of a session whose flag the stop button has set records a
\* failure while the interactive thread waits in the join
C14_Witness ==
    /\ lastOp.op = "thread"
    /\ ui.pos = "join"
    /\ current_worker # 0
    /\ workers[current_worker].stop_flag
    /\ workers[current_worker].exc
    /\ status = StatusSpeaking

\* C15: when run() gets past pyttsx3.init(), every property it tried to set
\* and the engine did not reject is set, whatever the engine rejected, the
\* utterance is spoken (runAndWait is entered) and exc is empty; exc is set
\* only by the failure of init or of the speak call, which is how the session
\* then ended.
C15_PropertyFailureSwallowed ==
    /\ [][\A w \in WorkerIds :
            (workers[w].pc = "init" /\ workers'[w].pc = "speaking") =>
                /\ workers'[w].applied \cup workers'[w].raised
                      = (IF workers[w].voice_id \in {"", "None"}
                         THEN {"rate", "volume"}
                         ELSE {"voice", "rate", "volume"})
                /\ workers'[w].applied \cap workers'[w].raised = {}
                /\ ~workers'[w].exc]_vars
    /\ [](\A w \in WorkerIds :
             /\ workers[w].exc => workers[w].outcome = "failed"
             /\ workers[w].outcome \in {"completed", "cancelled"} =>
                   ~workers[w].exc /\ workers[w].shown = 0)

\* a session whose engine rejected the voice has spoken to the end, and one
\* whose engine rejected the rate is speaking with voice and volume set
C15_Witness ==
    /\ lastOp.op = "thread"
    /\ \E v, w \in WorkerIds :
          /\ workers[v].raised = {"voice"}
          /\ workers[v].outcome = "completed"
          /\ ~workers[v].exc
          /\ workers[w].pc = "speaking"
          /\ workers[w].raised = {"rate"}
          /\ workers[w].applied = {"voice", "volume"}

\* m is one of the messages of msgs, unaltered
Kept(m, msgs) == \E j \in 1..Len(msgs) : msgs[j] = m

\* C16: a step of any handler other than submit, delete-one and clear (speak
\* by replay-last and replay-one, stop, the join return, poll and the end of a
\* poll that showed a failure, export, destroy, a thread step) leaves the
\* history and next_id as they were; the history grows only in a submit, by
\* one message at its end, and loses messages only in a delete-one or a clear;
\* next_id changes only in a submit; every message of the history after a step
\* is a message of the history before it, id, timestamp and text, or the one a
\* submit appended.
C16_LifecycleKeepsHistory ==
    [][/\ lastOp'.op \notin {"send", "ctx_delete", "clear"} =>
            UNCHANGED <<messages, next_id>>
       /\ lastOp'.op = "send" =>
            \/ UNCHANGED <<messages, next_id>>
            \/ /\ Len(messages') = Len(messages) + 1
               /\ SubSeq(messages', 1, Len(messages)) = messages
               /\ next_id' = next_id + 1
       /\ lastOp'.op \in {"ctx_delete", "clear"} =>
            /\ Len(messages') <= Len(messages)
            /\ \A i \in 1..Len(messages') : Kept(messages'[i], messages)
            /\ next_id' = next_id]_vars

\* a poll has opened the error box for a failed session, with two messages in
\* the history and an exported file
C16_Witness ==
    /\ lastOp.op = "poll"
    /\ dialogs # <<>>
    /\ Len(messages) = 2
    /\ messages[1].id = 1 /\ messages[2].id = 2
    /\ file # <<>>
    /\ ui.pos = "ready"

\* C17 as stated: for no session is the error box opened more than once.
C17_FailureShownOnce == \A w \in WorkerIds : workers[w].shown <= 1

\* C18 as stated: at most one poll callback is pending, and at least one is
\* pending whenever there is a current session.
C18_OnePollPending ==
    /\ timers <= 1
    /\ current_worker # 0 => timers >= 1

\* the transcript of a history: the lines _append_log gives each message, in
\* the order of the history
RECURSIVE ViewOf(_)
ViewOf(msgs) ==
    IF msgs = <<>> THEN <<>> ELSE LogLines(Head(msgs)) \o ViewOf(Tail(msgs))

\* C19 as stated: in every reachable state the transcript shows exactly the
\* messages of the history, one entry per message, in the same order, with
\* the same id and text.
C19_ViewShowsHistory == txt_log = ViewOf(messages)

====
